---- MODULE Spec2Model ----
(***************************************************************************)
(* Model of src/src/lib.rs: WebSocketServerPlugin.                         *)
(*                                                                         *)
(* Tasks on the tokio runtime: accept-loop tasks (start_server), one       *)
(* connection handler per accepted socket (handle_client), stop tasks      *)
(* (stop_server) and outbound tasks (send_message_to_client /              *)
(* broadcast_message).  The host calls the PluginHandler callbacks one at  *)
(* a time; on_disconnect blocks the host until its stop task ends or its   *)
(* 5 s timeout elapses.                                                    *)
(*                                                                         *)
(* Time is counted in ticks of 100 ms.  A step of a task that waits for    *)
(* nothing (no lock held by another task, no peer, no timer) is taken      *)
(* before time advances, so every sleep of the code lasts at least as long *)
(* as the code asks; peers and the host act at any time.                   *)
(***************************************************************************)
EXTENDS Naturals, Sequences, FiniteSets

\* ---- bounds of the model
MaxCalls == 3       \* host callbacks that spawn a task (start, stop, send)
MaxConns == 2       \* inbound connections accepted over a run
MaxFrames == 2      \* inbound text frames unread or notified, over the live
                    \*   connections
InboundCalls == 2   \* host callbacks while peers send text frames

\* ---- program constants, in ticks of 100 ms
PollTicks == 1              \* lib.rs:101  sleep(100 ms) in the accept loop
AbortGraceTicks == 1        \* lib.rs:194  sleep(100 ms) after abort
CloseGraceTicks == 2        \* lib.rs:215  sleep(200 ms) after clear
ShutdownTimeoutTicks == 50  \* lib.rs:412  timeout(5 s) in on_disconnect

Tasks == 1..MaxCalls        \* accept-loop tasks (JoinHandle of start_server)
Stops == 1..MaxCalls        \* stop_server tasks
Sends == 1..MaxCalls        \* handle_message tasks
Conns == 1..MaxConns        \* accepted sockets; a client id is its socket's
Addrs == {1, 2}             \* bind addresses the host can configure

CloseFrame == <<"close", 0>>    \* Message::Close(None)
TextFrame(m) == <<"text", m>>   \* Message::Text, the text of outbound task m

NoOne == <<"none", 0>>      \* a free tokio Mutex
StopTask(s) == <<"stop", s>>
SendTask(m) == <<"send", m>>

VARIABLES
    server_running,   \* lib.rs:32  the value under the Mutex<bool>
    server_handle,    \* lib.rs:38  0 (None) or the stored accept task
    handleLock,       \* holder of the server_handle Mutex
    clients,          \* lib.rs:35  keys of the HashMap
    clientsLock,      \* holder of the clients Mutex
    senderLock,       \* lib.rs:19  holder of each ClientInfo.sender Mutex
    task,             \* accept tasks: [pc, addr, aborted, timer]
    conn,             \* handlers: the place of each handle_client task
    stop,             \* stop tasks: [pc, timer, todo, cur] and what was so when
                      \*   the call began: seen (the handlers alive), clean
                      \*   (no start was invoked since)
    send,             \* outbound tasks: [pc, target, todo, cur, errors, result, snap, tried]
    wire,             \* frames written to each socket, in order
    inbox,            \* text frames of each live connection: sent (how many
                      \*   the peer has sent, numbered in that order), queue
                      \*   (received by the socket, not yet read), heard
                      \*   (the payloads notified to the host, in order)
    host,             \* [calls, waiting, timer, disposed] and runtime: the
                      \*   tokio runtime of on_mount is up (not shut down)
    notes             \* what the host was notified of (send_message_to_frontend):
                      \*   stopped: "completely stopped" notifications sent;
                      \*   started, bindFailed: "server started" and
                      \*   "failed to start the server" ones;
                      \*   established, closed: per client id, the
                      \*   "new connection" and "client disconnected" ones;
                      \*   and quiet: a stop has completed and no start was
                      \*   invoked since that stop began

vars == <<server_running, server_handle, handleLock, clients, clientsLock,
          senderLock, task, conn, stop, send, wire, inbox, host, notes>>

shared == <<server_running, server_handle, handleLock, clients, clientsLock,
            senderLock, wire, inbox>>

\* a task slot not spawned yet; a finished task keeps only its pc (and an
\* outbound task the Result it returned)
IdleTask == [pc |-> "none", addr |-> 0, aborted |-> FALSE, timer |-> 0]
IdleStop == [pc |-> "none", timer |-> 0, todo |-> {}, cur |-> 0, seen |-> {},
             clean |-> FALSE]
IdleSend == [pc |-> "none", target |-> 0, todo |-> {}, cur |-> 0, errors |-> {},
             result |-> <<"none", {}>>, snap |-> {}, tried |-> [c \in Conns |-> 0]]
NoFrames == [sent |-> 0, queue |-> <<>>, heard |-> <<>>]
DoneTask == [IdleTask EXCEPT !.pc = "done"]
DoneStop == [IdleStop EXCEPT !.pc = "done"]
DoneSend(r) == [IdleSend EXCEPT !.pc = "done", !.result = r]

\* ---- WebSocketServerPlugin::new (lib.rs:42-52) and the freshly mounted plugin
Init ==
    /\ server_running = FALSE
    /\ server_handle = 0
    /\ handleLock = NoOne
    /\ clients = {}
    /\ clientsLock = NoOne
    /\ senderLock = [c \in Conns |-> NoOne]
    /\ task = [t \in Tasks |-> IdleTask]
    /\ conn = [c \in Conns |-> "none"]
    /\ stop = [s \in Stops |-> IdleStop]
    /\ send = [m \in Sends |-> IdleSend]
    /\ wire = [c \in Conns |-> <<>>]
    /\ inbox = [c \in Conns |-> NoFrames]
    /\ host = [calls |-> 0, waiting |-> 0, timer |-> 0, disposed |-> FALSE,
               runtime |-> TRUE]
    /\ notes = [stopped |-> 0, quiet |-> FALSE, started |-> 0, bindFailed |-> 0,
                established |-> [c \in Conns |-> 0],
                closed |-> [c \in Conns |-> 0]]

\* ---- helpers
Listening(t) == task[t].pc \in {"bound", "check", "select"}
AddrInUse(a) == \E t \in Tasks : Listening(t) /\ task[t].addr = a
HandlerAlive(c) == conn[c] \in {"handshake", "insert", "recv", "remove"}
\* the socket is open from accept() until the peer ends the stream
SocketOpen(c) == conn[c] \in {"handshake", "insert", "recv"}
StopInProgress(s) == stop[s].pc \notin {"none", "done"}
HostFree == host.waiting = 0 /\ ~host.disposed /\ host.calls < MaxCalls

\* text frames sent so far to the connections that are alive
RECURSIVE SumSent(_)
SumSent(S) == IF S = {} THEN 0
              ELSE LET c == CHOOSE x \in S : TRUE
                   IN inbox[c].sent + SumSent(S \ {c})
FramesSent == SumSent(Conns)

\* Strong references to the Arc<Runtime>: self.runtime and one in the
\* clone of the plugin that each running start, stop or outbound task owns
\* (lib.rs:271, 358, 402, 440).
RuntimeRefs ==
    1 + Cardinality({t \in Tasks : task[t].pc \notin {"none", "done"}})
      + Cardinality({s \in Stops : stop[s].pc \notin {"none", "done"}})
      + Cardinality({m \in Sends : send[m].pc \notin {"none", "done"}})

\* the first unused slot of a pool
FreeTask(t) == task[t].pc = "none" /\ \A u \in Tasks : u < t => task[u].pc # "none"
FreeStop(s) == stop[s].pc = "none" /\ \A u \in Stops : u < s => stop[u].pc # "none"
FreeSend(m) == send[m].pc = "none" /\ \A u \in Sends : u < m => send[u].pc # "none"
FreeConn(c) == conn[c] = "none" /\ \A u \in Conns : u < c => conn[u] # "none"


\* ======================================================================
\* Host callbacks (PluginHandler)
\* ======================================================================

\* on_connect (lib.rs:382-391) -> start_server_task (lib.rs:269-280):
\* spawn start_server, then store the handle if try_lock succeeds.
OnConnect(a) ==
    /\ HostFree
    /\ \E t \in Tasks :
        /\ FreeTask(t)
        /\ task' = [task EXCEPT ![t] = [pc |-> "start", addr |-> a,
                                        aborted |-> FALSE, timer |-> 0]]
        /\ server_handle' = IF handleLock = NoOne THEN t ELSE server_handle
    /\ host' = [host EXCEPT !.calls = @ + 1]
    /\ notes' = [notes EXCEPT !.quiet = FALSE]
    /\ stop' = [s \in Stops |-> [stop[s] EXCEPT !.clean = FALSE]]
    /\ UNCHANGED <<server_running, handleLock, clients, clientsLock, senderLock,
                   conn, send, wire, inbox>>

\* on_disconnect (lib.rs:393-430): spawn stop_server and block on it with
\* a 5 s timeout.
OnDisconnect ==
    /\ HostFree
    /\ \E s \in Stops :
        /\ FreeStop(s)
        /\ stop' = [stop EXCEPT ![s].pc = "begin"]
        /\ host' = [host EXCEPT !.calls = @ + 1, !.waiting = s,
                                !.timer = ShutdownTimeoutTicks]
    /\ UNCHANGED <<shared, task, conn, send, notes>>

\* lib.rs:414-419: the join handle resolved before the deadline.
HostStopJoined ==
    /\ host.waiting # 0
    /\ stop[host.waiting].pc = "done"
    /\ host' = [host EXCEPT !.waiting = 0, !.timer = 0]
    /\ UNCHANGED <<shared, task, conn, stop, send, notes>>

\* lib.rs:420-422: the deadline elapsed first; only a log line is written.
HostStopTimedOut ==
    /\ host.waiting # 0
    /\ stop[host.waiting].pc # "done"
    /\ host.timer = 0
    /\ host' = [host EXCEPT !.waiting = 0]
    /\ UNCHANGED <<shared, task, conn, stop, send, notes>>

\* on_dispose (lib.rs:349-380): spawn stop_server without waiting for it,
\* then Arc::try_unwrap (lib.rs:366-376) on a fresh clone of self.runtime:
\* the runtime is shut down only if that clone is the one reference left,
\* which the reference kept by self.runtime and the one of the stop task
\* just spawned rule out.
OnDispose ==
    /\ HostFree
    /\ \E s \in Stops :
        /\ FreeStop(s)
        /\ stop' = [stop EXCEPT ![s].pc = "begin"]
    /\ host' = [host EXCEPT !.calls = @ + 1, !.disposed = TRUE,
                            !.runtime = IF RuntimeRefs + 2 = 1 THEN FALSE ELSE @]
    /\ UNCHANGED <<shared, task, conn, send, notes>>

\* handle_message (lib.rs:432-466): spawn a unicast to the selected client
\* (target # 0) or a broadcast (target = 0, selected_client = None).
OnMessage(target) ==
    /\ HostFree
    /\ \E m \in Sends :
        /\ FreeSend(m)
        /\ send' = [send EXCEPT ![m].pc = "lockClients", ![m].target = target]
    /\ host' = [host EXCEPT !.calls = @ + 1]
    /\ UNCHANGED <<shared, task, conn, stop, notes>>

\* ======================================================================
\* start_server (lib.rs:55-116), one accept-loop task
\* ======================================================================

\* faulty variant: the flag is raised before the listener is bound
StartBind_RaisesFlagFirst(t) ==
    /\ task[t].pc = "start"
    /\ ~task[t].aborted
    /\ \E ok \in BOOLEAN :
        /\ ok => ~AddrInUse(task[t].addr)
        /\ task' = [task EXCEPT ![t] = IF ok THEN [@ EXCEPT !.pc = "bound"] ELSE DoneTask]
        /\ notes' = IF ok THEN notes ELSE [notes EXCEPT !.bindFailed = @ + 1]
    /\ server_running' = TRUE
    /\ UNCHANGED <<server_handle, handleLock, clients, clientsLock, senderLock,
                   wire, conn, stop, send, host, inbox>>

\* lib.rs:59: TcpListener::bind; fails when the address is taken (or for
\* any other reason) and the task ends after notifying the failure.
StartBind(t) ==
    /\ task[t].pc = "start"
    /\ ~task[t].aborted
    /\ \E ok \in BOOLEAN :
        /\ ok => ~AddrInUse(task[t].addr)
        /\ task' = [task EXCEPT ![t] = IF ok THEN [@ EXCEPT !.pc = "bound"] ELSE DoneTask]
        /\ notes' = IF ok THEN notes ELSE [notes EXCEPT !.bindFailed = @ + 1]
    /\ UNCHANGED <<shared, conn, stop, send, host>>

\* lib.rs:61-66: *server_running.lock().await = true, notify the frontend.
StartSetRunning(t) ==
    /\ task[t].pc = "bound"
    /\ server_running' = TRUE
    /\ task' = [task EXCEPT ![t].pc = "check"]
    /\ notes' = [notes EXCEPT !.started = @ + 1]
    /\ UNCHANGED <<server_handle, handleLock, clients, clientsLock, senderLock,
                   wire, conn, stop, send, host, inbox>>

\* lib.rs:74-77 and 108-109: read the flag at the top of the loop; break
\* (dropping the listener) when it is false, else enter select!.
AcceptCheck(t) ==
    /\ task[t].pc = "check"
    /\ task' = [task EXCEPT ![t] = IF server_running
                                    THEN [@ EXCEPT !.pc = "select", !.timer = PollTicks]
                                    ELSE DoneTask]
    /\ UNCHANGED <<shared, conn, stop, send, host, notes>>

\* lib.rs:81-93: accept() returned a socket; spawn handle_client for it.
AcceptConn(t) ==
    /\ task[t].pc = "select"
    /\ ~task[t].aborted
    /\ \E c \in Conns :
        /\ FreeConn(c)
        /\ conn' = [conn EXCEPT ![c] = "handshake"]
    /\ task' = [task EXCEPT ![t].pc = "check", ![t].timer = 0]
    /\ UNCHANGED <<shared, stop, send, host, notes>>

\* lib.rs:94-98: accept() failed; break out of the loop.
AcceptError(t) ==
    /\ task[t].pc = "select"
    /\ ~task[t].aborted
    /\ task' = [task EXCEPT ![t] = DoneTask]
    /\ UNCHANGED <<shared, conn, stop, send, host, notes>>

\* lib.rs:101-104: the 100 ms sleep of select! fired; continue.
AcceptPoll(t) ==
    /\ task[t].pc = "select"
    /\ ~task[t].aborted
    /\ task[t].timer = 0
    /\ task' = [task EXCEPT ![t].pc = "check"]
    /\ UNCHANGED <<shared, conn, stop, send, host, notes>>

\* JoinHandle::abort (lib.rs:191) takes effect when the task is next
\* polled: a task suspended at an await (never polled yet, or inside
\* select!) is dropped without running again, and its listener with it.
AcceptAborted(t) ==
    /\ task[t].aborted
    /\ task[t].pc \in {"start", "select"}
    /\ task' = [task EXCEPT ![t] = DoneTask]
    /\ UNCHANGED <<shared, conn, stop, send, host, notes>>

\* ======================================================================
\* handle_client (lib.rs:119-179), one task per accepted socket
\* ======================================================================

\* lib.rs:125-141: accept_async completed the upgrade.
HandshakeOk(c) ==
    /\ conn[c] = "handshake"
    /\ conn' = [conn EXCEPT ![c] = "insert"]
    /\ UNCHANGED <<shared, task, stop, send, host, notes>>

\* faulty variant: a failed upgrade runs the close path as well
HandshakeFail_RunsClosePath(c) ==
    /\ conn[c] = "handshake"
    /\ conn' = [conn EXCEPT ![c] = "remove"]
    /\ UNCHANGED <<shared, task, stop, send, host, notes>>

\* lib.rs:175-177: the upgrade failed; the task logs a warning, ends and
\* drops the socket.
HandshakeFail(c) ==
    /\ conn[c] = "handshake"
    /\ conn' = [conn EXCEPT ![c] = "failed"]
    /\ UNCHANGED <<shared, task, stop, send, host, notes>>

\* lib.rs:144-147: clients.lock().await.insert(client_id, client_info).
HandlerInsert(c) ==
    /\ conn[c] = "insert"
    /\ clientsLock = NoOne
    /\ clients' = clients \cup {c}
    /\ conn' = [conn EXCEPT ![c] = "recv"]
    /\ notes' = [notes EXCEPT !.established[c] = @ + 1]
    /\ UNCHANGED <<server_running, server_handle, handleLock, clientsLock,
                   senderLock, wire, task, stop, send, host, inbox>>

\* lib.rs:150-167: the receive loop ends on a close frame, a transport
\* error or the end of the stream; the peer decides when.
HandlerLoopEnds(c) ==
    /\ conn[c] = "recv"
    /\ conn' = [conn EXCEPT ![c] = "remove"]
    /\ inbox' = [inbox EXCEPT ![c] = NoFrames]
    /\ UNCHANGED <<server_running, server_handle, handleLock, clients, clientsLock,
                   senderLock, wire, task, stop, send, host, notes>>

\* The peer sends one more text frame; it waits in the socket until the
\* handler reads it.
PeerText(c) ==
    /\ conn[c] \in {"insert", "recv"}
    /\ FramesSent < MaxFrames
    /\ inbox' = [inbox EXCEPT ![c].sent = @ + 1,
                              ![c].queue = Append(@, inbox[c].sent + 1)]
    /\ UNCHANGED <<server_running, server_handle, handleLock, clients, clientsLock,
                   senderLock, wire, task, conn, stop, send, host, notes>>

\* faulty variant: the newest unread frame is forwarded first
HandlerText_NewestFirst(c) ==
    /\ conn[c] = "recv"
    /\ inbox[c].queue # <<>>
    /\ LET q == inbox[c].queue
       IN inbox' = [inbox EXCEPT ![c].queue = SubSeq(q, 1, Len(q) - 1),
                                 ![c].heard = Append(@, q[Len(q)])]
    /\ UNCHANGED <<server_running, server_handle, handleLock, clients, clientsLock,
                   senderLock, wire, task, conn, stop, send, host, notes>>

\* lib.rs:150-156: ws_receiver.next() yields the oldest unread frame and
\* the Text arm notifies the host of it before the next one is read.
HandlerText(c) ==
    /\ conn[c] = "recv"
    /\ inbox[c].queue # <<>>
    /\ inbox' = [inbox EXCEPT ![c].queue = Tail(@),
                              ![c].heard = Append(@, Head(inbox[c].queue))]
    /\ UNCHANGED <<server_running, server_handle, handleLock, clients, clientsLock,
                   senderLock, wire, task, conn, stop, send, host, notes>>

\* faulty variant: the close path empties the registry
HandlerRemove_ClearsAll(c) ==
    /\ conn[c] = "remove"
    /\ clientsLock = NoOne
    /\ clients' = {}
    /\ conn' = [conn EXCEPT ![c] = "closed"]
    /\ notes' = [notes EXCEPT !.closed[c] = @ + 1]
    /\ UNCHANGED <<server_running, server_handle, handleLock, clientsLock,
                   senderLock, wire, task, stop, send, host, inbox>>

\* lib.rs:170-173: clients.lock().await.remove(&client_id), notify.
HandlerRemove(c) ==
    /\ conn[c] = "remove"
    /\ clientsLock = NoOne
    /\ clients' = clients \ {c}
    /\ conn' = [conn EXCEPT ![c] = "closed"]
    /\ notes' = [notes EXCEPT !.closed[c] = @ + 1]
    /\ UNCHANGED <<server_running, server_handle, handleLock, clientsLock,
                   senderLock, wire, task, stop, send, host, inbox>>

\* ======================================================================
\* stop_server (lib.rs:182-222), one task per on_disconnect / on_dispose
\* ======================================================================

\* faulty variant: the flag is toggled instead of cleared
StopSetFlag_Toggle(s) ==
    /\ stop[s].pc = "begin"
    /\ server_running' = ~server_running
    /\ stop' = [stop EXCEPT ![s].pc = "lockHandle",
                            ![s].seen = {c \in Conns : HandlerAlive(c)},
                            ![s].clean = TRUE]
    /\ UNCHANGED <<server_handle, handleLock, clients, clientsLock, senderLock,
                   wire, task, conn, send, host, notes, inbox>>

\* lib.rs:186: *self.server_running.lock().await = false.
StopSetFlag(s) ==
    /\ stop[s].pc = "begin"
    /\ server_running' = FALSE
    /\ stop' = [stop EXCEPT ![s].pc = "lockHandle",
                            ![s].seen = {c \in Conns : HandlerAlive(c)},
                            ![s].clean = TRUE]
    /\ UNCHANGED <<server_handle, handleLock, clients, clientsLock, senderLock,
                   wire, task, conn, send, host, notes, inbox>>

\* lib.rs:189-191: server_handle.lock().await.take(); with a handle, abort
\* it; the guard is a temporary of the if-let scrutinee and lives to the
\* end of the if-let, so it is held across the sleep of line 194.
StopTakeHandle(s) ==
    /\ stop[s].pc = "lockHandle"
    /\ handleLock = NoOne
    /\ IF server_handle = 0
       THEN /\ stop' = [stop EXCEPT ![s].pc = "lockClients"]
            /\ UNCHANGED <<handleLock, task>>
       ELSE /\ task' = [task EXCEPT ![server_handle] =
                                IF @.pc = "done" THEN @ ELSE [@ EXCEPT !.aborted = TRUE]]
            /\ handleLock' = StopTask(s)
            /\ stop' = [stop EXCEPT ![s].pc = "abortGrace",
                                    ![s].timer = AbortGraceTicks]
    /\ server_handle' = 0
    /\ UNCHANGED <<server_running, clients, clientsLock, senderLock, wire,
                   conn, send, host, notes, inbox>>

\* lib.rs:194-195: the 100 ms sleep is over; the guard is dropped.
StopAbortGraceOver(s) ==
    /\ stop[s].pc = "abortGrace"
    /\ stop[s].timer = 0
    /\ handleLock' = NoOne
    /\ stop' = [stop EXCEPT ![s].pc = "lockClients"]
    /\ UNCHANGED <<server_running, server_handle, clients, clientsLock,
                   senderLock, wire, task, conn, send, host, notes, inbox>>

\* lib.rs:199-203: let mut clients = self.clients.lock().await; the loop
\* iterates the map as it is now, the guard being held to line 212.
StopLockClients(s) ==
    /\ stop[s].pc = "lockClients"
    /\ clientsLock = NoOne
    /\ clientsLock' = StopTask(s)
    /\ stop' = [stop EXCEPT ![s].pc = "closeLoop", ![s].todo = clients]
    /\ UNCHANGED <<server_running, server_handle, handleLock, clients,
                   senderLock, wire, task, conn, send, host, notes, inbox>>

\* lib.rs:203-204: next client of the iteration; try_lock its sender and
\* start sending Close, or skip the client when the sender is held.
StopCloseNext(s) ==
    /\ stop[s].pc = "closeLoop"
    /\ \E c \in stop[s].todo :
        IF senderLock[c] = NoOne
        THEN /\ senderLock' = [senderLock EXCEPT ![c] = StopTask(s)]
             /\ stop' = [stop EXCEPT ![s].pc = "closeWrite", ![s].cur = c]
        ELSE /\ stop' = [stop EXCEPT ![s].todo = @ \ {c}]
             /\ UNCHANGED senderLock
    /\ UNCHANGED <<server_running, server_handle, handleLock, clients,
                   clientsLock, wire, task, conn, send, host, notes, inbox>>

\* lib.rs:205-207: sender.send(Close).await returned; its result is
\* dropped ("let _ ="), the sender guard ends with the if-let body.
StopCloseWritten(s, ok) ==
    /\ stop[s].pc = "closeWrite"
    /\ wire' = [wire EXCEPT ![stop[s].cur] = IF ok THEN Append(@, CloseFrame) ELSE @]
    /\ senderLock' = [senderLock EXCEPT ![stop[s].cur] = NoOne]
    /\ stop' = [stop EXCEPT ![s].pc = "closeLoop", ![s].todo = @ \ {stop[s].cur},
                            ![s].cur = 0]
    /\ UNCHANGED <<server_running, server_handle, handleLock, clients,
                   clientsLock, task, conn, send, host, notes, inbox>>

\* faulty variant: the registry is not emptied
StopClear_KeepsEntries(s) ==
    /\ stop[s].pc = "closeLoop"
    /\ stop[s].todo = {}
    /\ clientsLock' = NoOne
    /\ stop' = [stop EXCEPT ![s].pc = "closeGrace", ![s].timer = CloseGraceTicks]
    /\ UNCHANGED <<server_running, server_handle, handleLock, clients, senderLock,
                   wire, task, conn, send, host, notes, inbox>>

\* lib.rs:211-212: clients.clear(); the registry guard is dropped.
StopClear(s) ==
    /\ stop[s].pc = "closeLoop"
    /\ stop[s].todo = {}
    /\ clients' = {}
    /\ clientsLock' = NoOne
    /\ stop' = [stop EXCEPT ![s].pc = "closeGrace", ![s].timer = CloseGraceTicks]
    /\ UNCHANGED <<server_running, server_handle, handleLock, senderLock, wire,
                   task, conn, send, host, notes, inbox>>

\* lib.rs:215-221: the 200 ms sleep is over; notify "completely stopped".
StopNotify(s) ==
    /\ stop[s].pc = "closeGrace"
    /\ stop[s].timer = 0
    /\ stop' = [stop EXCEPT ![s] = DoneStop]
    /\ notes' = [notes EXCEPT !.stopped = @ + 1, !.quiet = (@ \/ stop[s].clean)]
    /\ UNCHANGED <<shared, task, conn, send, host>>

\* ======================================================================
\* send_message_to_client (lib.rs:225-242) and broadcast_message
\* (lib.rs:245-266), one task per handle_message
\* ======================================================================

\* faulty variant: a miss of the lookup is swallowed and reported as success
SendLookup_MissIsOk(m) ==
    /\ send[m].pc = "lockClients"
    /\ send[m].target # 0
    /\ clientsLock = NoOne
    /\ IF send[m].target \in clients
       THEN /\ clientsLock' = SendTask(m)
            /\ send' = [send EXCEPT ![m].pc = "lockSender", ![m].cur = send[m].target]
       ELSE /\ clientsLock' = NoOne
            /\ send' = [send EXCEPT ![m] = DoneSend(<<"Ok", {}>>)]
    /\ UNCHANGED <<server_running, server_handle, handleLock, clients,
                   senderLock, wire, task, conn, stop, host, notes, inbox>>

\* lib.rs:226-227 and 239-241: lock the registry and look the id up; an
\* absent id returns "client does not exist" and drops the guard.
SendLookup(m) ==
    /\ send[m].pc = "lockClients"
    /\ send[m].target # 0
    /\ clientsLock = NoOne
    /\ IF send[m].target \in clients
       THEN /\ clientsLock' = SendTask(m)
            /\ send' = [send EXCEPT ![m].pc = "lockSender", ![m].cur = send[m].target]
       ELSE /\ clientsLock' = NoOne
            /\ send' = [send EXCEPT ![m] = DoneSend(<<"ClientNotFound", {}>>)]
    /\ UNCHANGED <<server_running, server_handle, handleLock, clients,
                   senderLock, wire, task, conn, stop, host, notes, inbox>>

\* lib.rs:246-249: lock the registry; the loop iterates the map as it is.
BroadcastBegin(m) ==
    /\ send[m].pc = "lockClients"
    /\ send[m].target = 0
    /\ clientsLock = NoOne
    /\ clientsLock' = SendTask(m)
    /\ send' = [send EXCEPT ![m].pc = "iterate", ![m].todo = clients,
                            ![m].snap = clients]
    /\ UNCHANGED <<server_running, server_handle, handleLock, clients,
                   senderLock, wire, task, conn, stop, host, notes, inbox>>

\* lib.rs:249: the next (client_id, client) of clients.iter().
BroadcastNext(m) ==
    /\ send[m].pc = "iterate"
    /\ \E c \in send[m].todo :
        send' = [send EXCEPT ![m].pc = "lockSender", ![m].cur = c]
    /\ UNCHANGED <<shared, task, conn, stop, host, notes>>

\* lib.rs:228 / 250: client.sender.lock().await, then the write begins.
SendLockSender(m) ==
    /\ send[m].pc = "lockSender"
    /\ senderLock[send[m].cur] = NoOne
    /\ senderLock' = [senderLock EXCEPT ![send[m].cur] = SendTask(m)]
    /\ send' = [send EXCEPT ![m].pc = "write", ![m].tried[send[m].cur] = @ + 1]
    /\ UNCHANGED <<server_running, server_handle, handleLock, clients,
                   clientsLock, wire, task, conn, stop, host, notes, inbox>>

\* faulty variant: a client whose write failed is dropped from the registry
SendWritten_DropsFailedClient(m, ok) ==
    /\ send[m].pc = "write"
    /\ wire' = [wire EXCEPT ![send[m].cur] = IF ok THEN Append(@, TextFrame(m)) ELSE @]
    /\ senderLock' = [senderLock EXCEPT ![send[m].cur] = NoOne]
    /\ clients' = IF ok THEN clients ELSE clients \ {send[m].cur}
    /\ IF send[m].target # 0
       THEN /\ clientsLock' = NoOne
            /\ send' = [send EXCEPT ![m] = DoneSend(IF ok THEN <<"Ok", {}>>
                                                     ELSE <<"SendFailed", {send[m].cur}>>)]
       ELSE /\ UNCHANGED clientsLock
            /\ send' = [send EXCEPT ![m].pc = "iterate", ![m].cur = 0,
                                    ![m].todo = @ \ {send[m].cur},
                                    ![m].errors = IF ok THEN @ ELSE @ \cup {send[m].cur}]
    /\ UNCHANGED <<server_running, server_handle, handleLock,
                   task, conn, stop, host, notes, inbox>>

\* faulty variant: after a failed unicast the task locks the registry again
\* while it still holds the guard
SendWritten_RelockOnError(m, ok) ==
    /\ send[m].pc = "write"
    /\ wire' = [wire EXCEPT ![send[m].cur] = IF ok THEN Append(@, TextFrame(m)) ELSE @]
    /\ senderLock' = [senderLock EXCEPT ![send[m].cur] = NoOne]
    /\ IF send[m].target # 0
       THEN IF ok
            THEN /\ clientsLock' = NoOne
                 /\ send' = [send EXCEPT ![m] = DoneSend(<<"Ok", {}>>)]
            ELSE /\ UNCHANGED clientsLock
                 /\ send' = [send EXCEPT ![m].pc = "lockClients"]
       ELSE /\ UNCHANGED clientsLock
            /\ send' = [send EXCEPT ![m].pc = "iterate", ![m].cur = 0,
                                    ![m].todo = @ \ {send[m].cur},
                                    ![m].errors = IF ok THEN @ ELSE @ \cup {send[m].cur}]
    /\ UNCHANGED <<server_running, server_handle, handleLock, clients,
                   task, conn, stop, host, notes, inbox>>

\* faulty variant: the broadcast loop breaks at the first failed write
SendWritten_BreakOnError(m, ok) ==
    /\ send[m].pc = "write"
    /\ wire' = [wire EXCEPT ![send[m].cur] = IF ok THEN Append(@, TextFrame(m)) ELSE @]
    /\ senderLock' = [senderLock EXCEPT ![send[m].cur] = NoOne]
    /\ IF send[m].target # 0
       THEN /\ clientsLock' = NoOne
            /\ send' = [send EXCEPT ![m] = DoneSend(IF ok THEN <<"Ok", {}>>
                                                     ELSE <<"SendFailed", {send[m].cur}>>)]
       ELSE /\ UNCHANGED clientsLock
            /\ send' = [send EXCEPT ![m].pc = "iterate", ![m].cur = 0,
                                    ![m].todo = IF ok THEN @ \ {send[m].cur} ELSE {},
                                    ![m].errors = IF ok THEN @ ELSE @ \cup {send[m].cur}]
    /\ UNCHANGED <<server_running, server_handle, handleLock, clients,
                   task, conn, stop, host, notes, inbox>>

\* lib.rs:229-238 / 251-253: sender.send(Text).await returned Ok or Err.
\* Unicast returns and drops both guards; broadcast records the failure
\* and goes on with the loop.
SendWritten(m, ok) ==
    /\ send[m].pc = "write"
    /\ wire' = [wire EXCEPT ![send[m].cur] = IF ok THEN Append(@, TextFrame(m)) ELSE @]
    /\ senderLock' = [senderLock EXCEPT ![send[m].cur] = NoOne]
    /\ IF send[m].target # 0
       THEN /\ clientsLock' = NoOne
            /\ send' = [send EXCEPT ![m] = DoneSend(IF ok THEN <<"Ok", {}>>
                                                     ELSE <<"SendFailed", {send[m].cur}>>)]
       ELSE /\ UNCHANGED clientsLock
            /\ send' = [send EXCEPT ![m].pc = "iterate", ![m].cur = 0,
                                    ![m].todo = @ \ {send[m].cur},
                                    ![m].errors = IF ok THEN @ ELSE @ \cup {send[m].cur}]
    /\ UNCHANGED <<server_running, server_handle, handleLock, clients,
                   task, conn, stop, host, notes, inbox>>

\* lib.rs:256-266: the loop is over; Ok if errors is empty, else the error
\* that lists the failed clients; the registry guard is dropped.
BroadcastEnd(m) ==
    /\ send[m].pc = "iterate"
    /\ send[m].todo = {}
    /\ clientsLock' = NoOne
    /\ send' = [send EXCEPT ![m] = DoneSend(IF send[m].errors = {} THEN <<"Ok", {}>>
                                             ELSE <<"PartialFailure", send[m].errors>>)]
    /\ UNCHANGED <<server_running, server_handle, handleLock, clients,
                   senderLock, wire, task, conn, stop, host, notes, inbox>>

\* ======================================================================
\* Scheduling
\* ======================================================================

\* A step of the program that waits for no peer and no timer.
Step ==
    \/ \E t \in Tasks : \/ StartBind(t)
                        \/ StartSetRunning(t)
                        \/ AcceptCheck(t)
                        \/ AcceptPoll(t)
                        \/ AcceptAborted(t)
    \/ \E c \in Conns : \/ HandlerInsert(c)
                        \/ HandlerRemove(c)
    \/ \E s \in Stops : \/ StopSetFlag(s)
                        \/ StopTakeHandle(s)
                        \/ StopAbortGraceOver(s)
                        \/ StopLockClients(s)
                        \/ StopCloseNext(s)
                        \/ StopClear(s)
                        \/ StopNotify(s)
    \/ \E m \in Sends : \/ SendLookup(m)
                        \/ BroadcastBegin(m)
                        \/ BroadcastNext(m)
                        \/ SendLockSender(m)
                        \/ BroadcastEnd(m)
    \/ HostStopJoined
    \/ HostStopTimedOut

\* What a peer does that sends nothing but its handshake: connect,
\* complete or break the handshake, end the stream, take (or refuse) a
\* frame written to it.
Peer ==
    \/ \E t \in Tasks : AcceptConn(t) \/ AcceptError(t)
    \/ \E c \in Conns : HandshakeOk(c) \/ HandshakeFail(c) \/ HandlerLoopEnds(c)
    \/ \E s \in Stops, ok \in BOOLEAN : StopCloseWritten(s, ok)
    \/ \E m \in Sends, ok \in BOOLEAN : SendWritten(m, ok)

\* What the host does.
Host ==
    \/ \E a \in Addrs : OnConnect(a)
    \/ OnDisconnect
    \/ OnDispose
    \/ \E target \in Conns \cup {0} : OnMessage(target)

Dec(n) == IF n > 0 THEN n - 1 ELSE 0

TimerPending ==
    \/ \E t \in Tasks : task[t].pc = "select" /\ task[t].timer > 0
    \/ \E s \in Stops : stop[s].timer > 0
    \/ host.waiting # 0 /\ host.timer > 0

\* 100 ms pass (tokio::time::sleep, lib.rs:101, 194, 215; timeout, 412).
Tick ==
    /\ TimerPending
    /\ ~ENABLED Step
    /\ task' = [t \in Tasks |-> [task[t] EXCEPT !.timer = Dec(@)]]
    /\ stop' = [s \in Stops |-> [stop[s] EXCEPT !.timer = Dec(@)]]
    /\ host' = [host EXCEPT !.timer = Dec(@)]
    /\ UNCHANGED <<shared, conn, send, notes>>

Next == Step \/ Peer \/ Host \/ Tick

Spec == Init /\ [][Next]_vars

\* Peers that send text frames as well, and the handlers reading them; the
\* Text arm changes nothing but what the host is notified of.  The host
\* makes InboundCalls callbacks at most.
Inbound == \E c \in Conns : PeerText(c) \/ HandlerText(c)

NextInbound ==
    \/ Step
    \/ Peer
    \/ Inbound
    \/ host.calls < InboundCalls /\ Host
    \/ Tick

InboundSpec == Init /\ [][NextInbound]_vars

\* The runtime polls every task that can run and time passes.  Of peers
\* only this is assumed: a Close frame written by stop_server is taken (or
\* refused) in the end, and so is a text frame written to a socket whose
\* stream has ended.  A text frame written to an open socket may stall for
\* ever; connections and host calls may never come.
WriteReturns ==
    \/ \E s \in Stops, ok \in BOOLEAN : StopCloseWritten(s, ok)
    \/ \E m \in Sends, ok \in BOOLEAN :
            /\ send[m].pc = "write"
            /\ ~SocketOpen(send[m].cur)
            /\ SendWritten(m, ok)

LiveSpec == Spec /\ WF_vars(Step) /\ WF_vars(Tick) /\ WF_vars(WriteReturns)

\* ======================================================================
\* Claims
\* ======================================================================

\* C1: from the completion notification of stop_server until start is next
\* invoked, the client registry holds no entry.
C1_RegistryEmptyAfterStop ==
    notes.quiet => clients = {}

\* C2: once stop_server has emitted its completion notification, no accept
\* loop started by an earlier start still holds its listening socket.
C2_ListenerReleasedAfterStop ==
    notes.quiet => \A t \in Tasks : ~Listening(t)

\* C3: when stop_server completes, every connection handler that was
\* spawned before the stop began has terminated.
C3_HandlersTerminatedAtStop ==
    [][\A s \in Stops :
         (stop[s].pc = "closeGrace" /\ stop'[s].pc = "done")
            => \A c \in stop[s].seen : conn'[c] = "closed"]_vars

\* C4: at every quiescent point (no handler between handshake and insert or
\* between loop exit and remove, no stop in progress) the registry has as
\* many entries as there are open connections whose handshake succeeded.
Quiescent ==
    /\ \A c \in Conns : conn[c] \notin {"insert", "remove"}
    /\ \A s \in Stops : ~StopInProgress(s)

C4_RegistryMatchesOpenConnections ==
    Quiescent =>
        Cardinality(clients) = Cardinality({c \in Conns : conn[c] = "recv"})

\* C10: no task holds the registry lock while it waits for a client's
\* writer lock or performs a socket write.
C10_RegistryLockNotHeldAcrossWrite ==
    /\ \A m \in Sends : send[m].pc \in {"lockSender", "write"}
                            => clientsLock # SendTask(m)
    /\ \A s \in Stops : stop[s].pc = "closeWrite" => clientsLock # StopTask(s)

\* C5: stop_server always eventually completes, even while a unicast or
\* broadcast task is stalled forever in a write to a slow peer.
C5_StopAlwaysCompletes ==
    \A s \in Stops : (stop[s].pc = "begin") ~> (stop[s].pc = "done")

\* C6: an accept loop that is blocked waiting for a connection when stop is
\* invoked eventually exits, whether or not its handle is the stored one.
C6_AcceptLoopExitsAfterStop ==
    \A t \in Tasks :
        (task[t].pc = "select" /\ \E s \in Stops : stop[s].pc = "begin")
            ~> (task[t].pc = "done")

\* C7: stop is idempotent: every step of a stop_server call taken while the
\* server is stopped (flag false, no stored handle, empty registry) leaves
\* the flag, the handle and the registry as they are and writes no frame,
\* and the call ends by sending the "completely stopped" notification.
Stopped == ~server_running /\ server_handle = 0 /\ clients = {}

StopMoved(s) ==
    /\ stop[s].pc # "none"
    /\ <<stop'[s].pc, stop'[s].todo>> # <<stop[s].pc, stop[s].todo>>

C7_StopIdempotent ==
    [][\A s \in Stops :
         StopMoved(s) =>
            /\ Stopped => UNCHANGED <<server_running, server_handle, clients, wire, inbox>>
            /\ stop'[s].pc = "done" => notes'.stopped = notes.stopped + 1]_vars

\* a stop has closed a client, and a second stop, begun with the server
\* stopped, has completed too without writing a frame
C7_Witness ==
    /\ notes.stopped = 2
    /\ Stopped
    /\ \E c \in Conns : wire[c] = <<CloseFrame>>

\* C8: a unicast to an id that is not in the registry returns the
\* client-not-found error, writes no frame and leaves the registry alone.
C8_UnknownClientRejected ==
    [][\A m \in Sends :
         ( /\ send[m].pc = "lockClients"
           /\ send[m].target # 0
           /\ send[m].target \notin clients
           /\ send'[m] # send[m] )
         => /\ send'[m] = DoneSend(<<"ClientNotFound", {}>>)
            /\ wire' = wire
            /\ clients' = clients]_vars

C8_Witness ==
    \E m \in Sends :
        /\ send[m].result = <<"ClientNotFound", {}>>
        /\ clients # {}
        /\ \A c \in Conns : wire[c] = <<>>

\* C9: a broadcast attempts one write for each client of the registry,
\* every client whose write did not fail has the frame, and the result is
\* Ok iff no write failed, else the error naming exactly the failed ids.
Count(seq, x) == Cardinality({i \in DOMAIN seq : seq[i] = x})

C9_BroadcastDelivery ==
    [][\A m \in Sends :
         (send[m].pc = "iterate" /\ send'[m].pc = "done")
         => LET N == send[m].snap
                F == {c \in N : Count(wire[c], TextFrame(m)) = 0}
            IN /\ N = clients
               /\ \A c \in Conns : send[m].tried[c] = IF c \in N THEN 1 ELSE 0
               /\ \A c \in N \ F : Count(wire[c], TextFrame(m)) = 1
               /\ send[m].errors = F
               /\ send'[m].result = IF F = {} THEN <<"Ok", {}>>
                                    ELSE <<"PartialFailure", F>>]_vars

\* a broadcast failed for one client and reached another
C9_Witness ==
    \E m \in Sends, c, d \in Conns :
        /\ send[m].result = <<"PartialFailure", {c}>>
        /\ d # c
        /\ Count(wire[d], TextFrame(m)) = 1
        /\ Count(wire[c], TextFrame(m)) = 0

\* C11: the close path of a registered connection runs once: the step that
\* ends its handler removes its id from the registry and no other id, also
\* when a stop has emptied the registry before, and the host has the
\* "client disconnected" notification of an id once when that handler has
\* ended and not at all before.
C11_ClosePathRunsOnce ==
    [][\A c \in Conns :
         /\ notes'.closed[c] = IF conn'[c] = "closed" THEN 1 ELSE 0
         /\ (conn[c] = "remove" /\ conn'[c] # "remove")
            => /\ conn'[c] = "closed"
               /\ clients' = clients \ {c}]_vars

\* a handler ended after a stop had written Close to it and emptied the
\* registry, while another client, registered since, keeps its entry
C11_Witness ==
    \E c, d \in Conns :
        /\ conn[c] = "closed"
        /\ notes.closed[c] = 1
        /\ CloseFrame \in {wire[c][i] : i \in DOMAIN wire[c]}
        /\ d # c
        /\ d \in clients

\* C13: a connection whose upgrade fails ends at once: it never has a
\* registry entry, no "new connection" and no "client disconnected"
\* notification names it, and the step changes neither the accept tasks
\* nor any other connection, the registry or the notifications.
C13_FailedHandshakeLeavesNoTrace ==
    [][\A c \in Conns :
         /\ (conn[c] = "handshake" /\ conn'[c] \notin {"handshake", "insert"})
            => /\ conn'[c] = "failed"
               /\ \A d \in Conns \ {c} : conn'[d] = conn[d]
               /\ UNCHANGED <<shared, task, stop, send, notes>>
         /\ conn'[c] = "failed"
            => /\ c \notin clients'
               /\ notes'.established[c] = 0
               /\ notes'.closed[c] = 0]_vars

\* an upgrade failed while the accept loop goes on polling and another
\* client is registered and served
C13_Witness ==
    \E c, d \in Conns, t \in Tasks :
        /\ conn[c] = "failed"
        /\ conn[d] = "recv"
        /\ d \in clients
        /\ task[t].pc = "select"

\* C14: when the listener cannot be bound, the start task notifies the
\* failure and ends: that step leaves the running flag as it was, sends no
\* "server started" notification, and the task never listens.
C14_BindFailureReported ==
    [][\A t \in Tasks :
         ( /\ task[t].pc = "start"
           /\ ~task[t].aborted
           /\ task'[t].pc \notin {"start", "bound"} )
         => /\ task'[t] = DoneTask
            /\ notes'.bindFailed = notes.bindFailed + 1
            /\ notes'.started = notes.started
            /\ server_running' = server_running]_vars

\* the only start failed to bind: one failure notification, no "server
\* started" one, the flag still false
C14_Witness ==
    /\ notes.bindFailed = 1
    /\ notes.started = 0
    /\ ~server_running
    /\ \E t \in Tasks : task[t] = DoneTask
    /\ \A t \in Tasks : task[t].pc \in {"none", "done"}

\* C12: for each client the payloads notified to the host are the text
\* frames the peer sent, in the order sent: what was notified followed by
\* what is still unread is the sequence sent, with no frame missing, twice
\* or out of place.
C12_InboundOrderKept ==
    \A c \in Conns :
        inbox[c].heard \o inbox[c].queue = [i \in 1..inbox[c].sent |-> i]

\* both frames a peer sent were notified, the handler still runs, and a
\* stop has written Close to that client
C12_Witness ==
    \E c \in Conns :
        /\ inbox[c].heard = <<1, 2>>
        /\ wire[c] = <<CloseFrame>>

\* C15: the runtime is shut down only after on_dispose was called and with
\* no stop task in progress, and once on_dispose has returned and the stop
\* tasks have ended the runtime has been shut down.
C15_RuntimeTornDownAfterStop ==
    /\ ~host.runtime => (host.disposed /\ \A s \in Stops : ~StopInProgress(s))
    /\ (host.disposed /\ \A s \in Stops : ~StopInProgress(s)) => ~host.runtime

\* C16: when the deadline of on_disconnect elapses before its stop task has
\* ended, that step notifies the host of something and leaves the stop
\* task as it is, still in progress.
C16_ShutdownTimeoutReported ==
    [][( /\ host.waiting # 0
         /\ host'.waiting = 0
         /\ stop[host.waiting].pc # "done" )
       => /\ notes' # notes
          /\ stop' = stop]_vars

\* C17: no step of a unicast or of a broadcast changes the registry,
\* whether its write succeeded or failed.
C17_SendsLeaveRegistryAlone ==
    [][send' # send => clients' = clients]_vars

\* a unicast failed and its client is still registered, its handler still
\* in the receive loop
C17_Witness ==
    \E m \in Sends, c \in Conns :
        /\ send[m].result = <<"SendFailed", {c}>>
        /\ c \in clients
        /\ conn[c] = "recv"

\* C18: the handle of every accept task that has not ended and was not
\* aborted is the one stored in server_handle.
C18_LiveAcceptTaskIsStored ==
    \A t \in Tasks :
        (task[t].pc \notin {"none", "done"} /\ ~task[t].aborted)
        => server_handle = t

\* ---- who waits for whom
Procs == {StopTask(s) : s \in Stops} \cup {SendTask(m) : m \in Sends}
         \cup {<<"conn", c>> : c \in Conns}

\* the task that holds the lock p is waiting for, or NoOne
Blocker(p) ==
    LET k == p[1]
        i == p[2]
    IN CASE k = "stop" /\ stop[i].pc = "lockHandle"  -> handleLock
         [] k = "stop" /\ stop[i].pc = "lockClients" -> clientsLock
         [] k = "send" /\ send[i].pc = "lockClients" -> clientsLock
         [] k = "send" /\ send[i].pc = "lockSender"  -> senderLock[send[i].cur]
         [] k = "conn" /\ conn[i] \in {"insert", "remove"} -> clientsLock
         [] OTHER -> NoOne

HoldsSender(p) == \E c \in Conns : senderLock[c] = p

RECURSIVE WaitsFor(_, _, _)
WaitsFor(p, q, n) ==
    /\ n > 0
    /\ Blocker(p) # NoOne
    /\ (Blocker(p) = q \/ WaitsFor(Blocker(p), q, n - 1))

\* C19: no task waits, through the locks it and others are blocked on, for
\* itself; a task asks for a sender lock only while it holds the registry
\* lock, and a task that asks for the registry lock or the handle lock
\* holds no lock.
C19_NoLockCycle ==
    /\ \A p \in Procs : ~WaitsFor(p, p, Cardinality(Procs))
    /\ \A m \in Sends : send[m].pc = "lockSender" => clientsLock = SendTask(m)
    /\ \A s \in Stops : stop[s].pc = "closeWrite" => clientsLock = StopTask(s)
    /\ \A s \in Stops :
           stop[s].pc \in {"lockHandle", "lockClients"}
           => /\ ~HoldsSender(StopTask(s))
              /\ clientsLock # StopTask(s)
              /\ handleLock # StopTask(s)
    /\ \A m \in Sends :
           send[m].pc = "lockClients"
           => ~HoldsSender(SendTask(m)) /\ clientsLock # SendTask(m)

\* a stop and a handler wait for the registry lock that an outbound task
\* holds, with a sender lock, while its write is in flight
C19_Witness ==
    \E s \in Stops, m \in Sends, c \in Conns :
        /\ stop[s].pc = "lockClients"
        /\ conn[c] = "remove"
        /\ clientsLock = SendTask(m)
        /\ send[m].pc = "write"
        /\ HoldsSender(SendTask(m))

\* C20: on no socket does a text frame follow a Close frame.
C20_NoTextAfterClose ==
    \A c \in Conns : \A i, j \in DOMAIN wire[c] :
        (i < j /\ wire[c][i] = CloseFrame) => wire[c][j] = CloseFrame

\* a unicast to a client is about to look it up after a stop has written
\* Close to it, its handler still in the receive loop
C20_Witness ==
    \E m \in Sends, c \in Conns :
        /\ send[m].pc = "lockClients"
        /\ send[m].target = c
        /\ conn[c] = "recv"
        /\ wire[c] = <<CloseFrame>>

====
